---- MODULE Spec2Model ----
(***************************************************************************)
(* Textile defect viewer (app.py): the on-disk sample corpus built by      *)
(* setup_sample_data, the annotation drawing of draw_annotations, and the  *)
(* Gallery / Detail navigation that main keeps in st.session_state.        *)
(*                                                                         *)
(* Files.  A directory is a function from the file names it holds to      *)
(* their contents.  The name sample_k.jpg / sample_k.txt is the number k;  *)
(* the content of a file copied from the source dataset is the stem of    *)
(* the source file (its rank in the sorted source listing), and           *)
(* StaleData is the content of a file that was in the directory before    *)
(* the program first ran.                                                  *)
(***************************************************************************)
EXTENDS Integers, Sequences, FiniteSets, TLC

VARIABLES
    src_n,            \* number of *.jpg files in the source image directory
    src_labels,       \* stems of the source images that have a label file
    images,           \* sample_images/ : name -> content
    annotations,      \* annotations/   : name -> content
    query,            \* per session: st.query_params['sample'] (fixed by the URL)
    selected_sample,  \* per session: st.session_state.selected_sample
    sample_paths,     \* per session: st.session_state.sample_paths
    view,             \* per session: what the last run of main rendered
    event,            \* the last step: session, trigger, whether it wrote files
    setup_done,       \* main has run setup_sample_data at least once
    last_run,         \* outcome of the last direct setup_sample_data run
    prev_run,         \* outcome of the run before it
    before,           \* the corpus as it was before the last direct run
    ann_exists,       \* draw_annotations: os.path.exists(annotation_path)
    ann_file,         \* draw_annotations: the lines of the annotation file
    img_size,         \* draw_annotations: <<w, h>> of the image
    drawn,            \* draw_annotations: the rectangles drawn, in order
    draw_done         \* draw_annotations has returned

vars == <<src_n, src_labels, images, annotations, query, selected_sample,
          sample_paths, view, event, setup_done, last_run, prev_run, before,
          ann_exists, ann_file, img_size, drawn, draw_done>>

corpusVars == <<src_n, src_labels, images, annotations>>
sessionVars == <<query, selected_sample, sample_paths, view, event, setup_done>>
setupVars == <<last_run, prev_run, before>>
drawVars == <<ann_exists, ann_file, img_size, drawn, draw_done>>

(***************************************************************************)
(* Bounds of the model and constants of the program.                       *)
(***************************************************************************)
MaxSrc == 2          \* source images in the application specification
MaxName == 2         \* names a file left in a directory beforehand can have
NumSessions == 2     \* browser sessions
MaxGallerySrc == 11  \* source images in the gallery specification
MaxLines == 3        \* lines of an annotation file
MaxEighth == 9       \* largest coordinate token, in eighths

MaxCount == 10       \* image_files = sorted(...)[:10]
MinParts == 5        \* len(parts) >= 5
Thickness == 3       \* cv2.rectangle(..., color, 3)
StaleData == 0       \* content of a file that predates the first run
None == 0            \* selected_sample = None
NoParam == -1        \* 'sample' not in st.query_params

Min(a, b) == IF a <= b THEN a ELSE b

Restrict(f, S) == [k \in S |-> f[k]]

EmptyDir == [k \in {} |-> StaleData]

(***************************************************************************)
(* sorted(glob.glob(".../*.jpg")): Python compares the path strings        *)
(* character by character.  The paths differ only from the digits of k on, *)
(* so the key of sample_k.jpg is the character codes of str(k) followed by *)
(* the code of '.'.                                                        *)
(***************************************************************************)
RECURSIVE Digits(_)
Digits(k) == IF k < 10 THEN <<48 + k>> ELSE Digits(k \div 10) \o <<48 + (k % 10)>>

NameKey(k) == Digits(k) \o <<46>>

RECURSIVE StrLess(_, _)
StrLess(a, b) ==
    IF a = <<>> THEN b # <<>>
    ELSE IF b = <<>> THEN FALSE
    ELSE IF Head(a) # Head(b) THEN Head(a) < Head(b)
    ELSE StrLess(Tail(a), Tail(b))

PathLess(j, k) == StrLess(NameKey(j), NameKey(k))

RECURSIVE SortedBy(_)
SortedBy(S) ==
    IF S = {} THEN <<>>
    ELSE LET m == CHOOSE x \in S : \A y \in S \ {x} : PathLess(x, y)
         IN  <<m>> \o SortedBy(S \ {m})

SortedGlob(dir) == SortedBy(DOMAIN dir)

(***************************************************************************)
(* setup_sample_data.  F names the file operations that raise in this run: *)
(* rmImg / rmAnn the files whose os.remove fails, cpImg the source images  *)
(* whose shutil.copy2 fails, cpLbl those whose label copy fails.  A failed *)
(* image copy skips the label copy too (one try block per image).          *)
(***************************************************************************)
NoFailures == [rmImg |-> {}, rmAnn |-> {}, cpImg |-> {}, cpLbl |-> {}]

ImageFiles(n) == 1..Min(n, MaxCount)

ClearDirKeepsAll(dir, failing) == dir

ClearDir(dir, failing) == Restrict(dir, DOMAIN dir \cap failing)

CopyInto(dir, copied) ==
    [k \in DOMAIN dir \cup copied |-> IF k \in copied THEN k ELSE dir[k]]

setup_sample_data(imgs, anns, n, labels, F) ==
    LET imgs1 == ClearDir(imgs, F.rmImg)
        anns1 == ClearDir(anns, F.rmAnn)
        copied == ImageFiles(n) \ F.cpImg
        labelled == {k \in copied : k \in labels /\ k \notin F.cpLbl}
    IN  [images |-> CopyInto(imgs1, copied),
         annotations |-> CopyInto(anns1, labelled)]

\* The failures that can happen in a run on this corpus.
Failures(imgs, anns, n, labels, allowed) ==
    IF ~allowed THEN {NoFailures}
    ELSE [rmImg : SUBSET DOMAIN imgs, rmAnn : SUBSET DOMAIN anns,
          cpImg : SUBSET ImageFiles(n),
          cpLbl : SUBSET (ImageFiles(n) \cap labels)]

IsClean(F) == F = NoFailures

\* Whether a run with failures F removes or writes at least one file.
Wrote(imgs, anns, n, F) ==
    \/ DOMAIN imgs \ F.rmImg # {}
    \/ DOMAIN anns \ F.rmAnn # {}
    \/ ImageFiles(n) \ F.cpImg # {}

(***************************************************************************)
(* draw_annotations.  A line of the annotation file is a record: parts is  *)
(* len(line.strip().split()), floats says whether tokens 2 to 5 all parse  *)
(* with float(), finite whether none of them parses to nan or inf (on      *)
(* which int() raises), cls_int whether token 1 parses with int() and cls  *)
(* its value; xc, yc, bw, bh are the four float tokens in eighths, so that *)
(* the float arithmetic of the code is exact.                              *)
(***************************************************************************)
Eighths == 8

Line(parts, floats, finite, cls_int, cls, xc, yc, bw, bh) ==
    [parts |-> parts, floats |-> floats, finite |-> finite,
     cls_int |-> cls_int, cls |-> cls,
     xc |-> xc, yc |-> yc, bw |-> bw, bh |-> bh]

\* int(x) of Python for x = num / den, den > 0: truncation toward zero.
PyIntFloor(num, den) == num \div den

PyInt(num, den) == IF num >= 0 THEN num \div den ELSE -((-num) \div den)

\* DEFECT_COLORS.get(class_id_int, (0, 255, 0)); the default is the colour of class 1.
Color(l) == IF l.cls_int /\ l.cls \in 0..6 THEN l.cls ELSE 1

\* x_center *= w; box_w *= w; x1 = int(x_center - box_w / 2); x2 = int(x_center + box_w / 2)
Rect(l, w, h) ==
    [x1 |-> PyInt(2 * l.xc * w - l.bw * w, 2 * Eighths),
     y1 |-> PyInt(2 * l.yc * h - l.bh * h, 2 * Eighths),
     x2 |-> PyInt(2 * l.xc * w + l.bw * w, 2 * Eighths),
     y2 |-> PyInt(2 * l.yc * h + l.bh * h, 2 * Eighths),
     color |-> Color(l), thickness |-> Thickness]

\* The for loop over the lines, inside one try block: float() or int()
\* raising on a line ends the loop, and the rectangles drawn so far stay on
\* the image.
RECURSIVE DrawLines(_, _, _, _)
DrawLines(lines, w, h, acc) ==
    IF lines = <<>> THEN acc
    ELSE LET l == Head(lines)
         IN  IF l.parts >= MinParts
             THEN IF l.floats /\ l.finite
                  THEN DrawLines(Tail(lines), w, h, Append(acc, Rect(l, w, h)))
                  ELSE acc
             ELSE DrawLines(Tail(lines), w, h, acc)

draw_annotations(exists, lines, w, h) ==
    IF ~exists THEN <<>> ELSE DrawLines(lines, w, h, <<>>)

(***************************************************************************)
(* main.  One run of the script for session s.  sel and paths are the      *)
(* session state the run starts from, q the 'sample' query parameter of    *)
(* the session's URL, clicked whether the run was triggered by the 'Back   *)
(* to samples' button, F the file operations that fail if the run calls    *)
(* setup_sample_data.  st.rerun() ends the run and schedules the next one: *)
(* the page then shows nothing of its own ("rerun").                       *)
(***************************************************************************)
Page(kind) == [kind |-> kind, img |-> StaleData, boxes |-> <<>>]

\* The content of the label file copied as content c (the dataset's data).
LabelFile(c) ==
    IF c = StaleData THEN <<Line(5, TRUE, TRUE, TRUE, 0, 4, 4, 8, 8)>>
    ELSE [i \in 1..Min(c, 2) |-> Line(5, TRUE, TRUE, TRUE, c % 7, 4, 4, 2 * i, 2 * i)]

\* Lines 191-203: cv2.imread, the annotation of the same stem, draw_annotations.
Render(sel, imgs, anns) ==
    IF sel \notin DOMAIN imgs THEN Page("error")
    ELSE [kind |-> "detail", img |-> imgs[sel],
          boxes |-> draw_annotations(sel \in DOMAIN anns,
                                     IF sel \in DOMAIN anns THEN LabelFile(anns[sel]) ELSE <<>>,
                                     640, 480)]

NeedSetup == DOMAIN images = {} \/ DOMAIN annotations = {}

\* Lines 326-353: sample_paths[str(i)] = img_path for every listed image.
StorePaths(paths, listing) ==
    [i \in DOMAIN paths \cup 0..(Len(listing) - 1) |->
        IF i < Len(listing) THEN listing[i + 1] ELSE paths[i]]

\* Line 166-167: the corpus after the run's setup step, and whether the step
\* removed or wrote a file, for each way the file operations of
\* setup_sample_data can fail (the corpus as it is when the step is skipped).
SetupOutcomes(allowed) ==
    IF NeedSetup
    THEN {[fs |-> setup_sample_data(images, annotations, src_n, src_labels, F),
           wrote |-> Wrote(images, annotations, src_n, F)] :
             F \in Failures(images, annotations, src_n, src_labels, allowed)}
    ELSE {[fs |-> [images |-> images, annotations |-> annotations], wrote |-> FALSE]}

main(s, clicked, out, kind) ==
    LET fs == out.fs
        sel == selected_sample[s]
        q == query[s]
        listing == SortedGlob(fs.images)
        stored == StorePaths(sample_paths[s], listing)
    IN  /\ images' = fs.images
        /\ annotations' = fs.annotations
        /\ event' = [s |-> s, kind |-> kind, wrote |-> out.wrote]
        /\ setup_done' = (setup_done \/ NeedSetup)
        /\ IF sel # None
           THEN IF clicked
                THEN /\ selected_sample' = [selected_sample EXCEPT ![s] = None]
                     /\ view' = [view EXCEPT ![s] = Page("rerun")]
                     /\ UNCHANGED sample_paths
                ELSE /\ view' = [view EXCEPT ![s] = Render(sel, fs.images, fs.annotations)]
                     /\ UNCHANGED <<selected_sample, sample_paths>>
           ELSE /\ sample_paths' = [sample_paths EXCEPT ![s] = stored]
                /\ IF q # NoParam /\ q \in DOMAIN stored
                   THEN /\ selected_sample' = [selected_sample EXCEPT ![s] = stored[q]]
                        /\ view' = [view EXCEPT ![s] = Page("rerun")]
                   ELSE /\ view' = [view EXCEPT ![s] = Page("gallery")]
                        /\ UNCHANGED selected_sample
        /\ UNCHANGED <<src_n, src_labels, query, setupVars, drawVars>>

\* The browser loads the page with URL ?sample=q (or no parameter), as the
\* 'View Analysis' button of card i does with q = i: a new session, whose
\* session_state is empty ('selected_sample' not in it, line 170), is about
\* to run the script for the first time.
Navigate(s, q) ==
    /\ query' = [query EXCEPT ![s] = q]
    /\ selected_sample' = [selected_sample EXCEPT ![s] = None]
    /\ sample_paths' = [sample_paths EXCEPT ![s] = EmptyDir]
    /\ view' = [view EXCEPT ![s] = Page("loading")]
    /\ event' = [s |-> s, kind |-> "load", wrote |-> FALSE]
    /\ UNCHANGED <<corpusVars, setup_done, setupVars, drawVars>>

\* The first run of the script in a new session.
FirstRun(s, allowed) ==
    /\ view[s].kind = "loading"
    /\ \E out \in SetupOutcomes(allowed) : main(s, FALSE, out, "first")

\* The 'Back to samples' button, on the page since line 180 of the last run.
ClickBack(s, allowed) ==
    /\ view[s].kind \in {"detail", "error"}
    /\ \E out \in SetupOutcomes(allowed) : main(s, TRUE, out, "back")

\* The run that st.rerun() scheduled.
Rerun(s, allowed) ==
    /\ view[s].kind = "rerun"
    /\ \E out \in SetupOutcomes(allowed) : main(s, FALSE, out, "rerun")

(***************************************************************************)
(* Initial corpora: a source dataset of n images, some with labels, and    *)
(* destination directories holding any files left there beforehand.        *)
(***************************************************************************)
StaleDirs == {[k \in S |-> StaleData] : S \in SUBSET (1..MaxName)}

InitCorpus(maxN) ==
    /\ src_n \in 0..maxN
    /\ src_labels \in SUBSET (1..src_n)
    /\ images \in StaleDirs
    /\ annotations \in StaleDirs

\* Directories as any earlier use can have left them: each file stale, or the
\* copy of the source file of its own index.
AnyDirs ==
    {[k \in S |-> IF k \in T THEN k ELSE StaleData] :
        S \in SUBSET (1..MaxName), T \in SUBSET (1..MaxName)}

Sessions == 1..NumSessions

InitSessions ==
    /\ query = [s \in Sessions |-> NoParam]
    /\ selected_sample = [s \in Sessions |-> None]
    /\ sample_paths = [s \in Sessions |-> <<>>]
    /\ view = [s \in Sessions |-> Page("closed")]
    /\ event = [s |-> 0, kind |-> "none", wrote |-> FALSE]
    /\ setup_done = FALSE

InitSetup ==
    /\ last_run = "none"
    /\ prev_run = "none"
    /\ before = [images |-> EmptyDir, annotations |-> EmptyDir]

InitDraw ==
    /\ ann_exists = FALSE
    /\ ann_file = <<>>
    /\ img_size = <<640, 480>>
    /\ drawn = <<>>
    /\ draw_done = FALSE

(***************************************************************************)
(* The application specification: sessions loading the page, running the  *)
(* script, clicking back, with file operations of setup that may fail.     *)
(***************************************************************************)
Params == {NoParam} \cup 0..MaxName

Init == InitCorpus(MaxSrc) /\ InitSessions /\ InitSetup /\ InitDraw

Next ==
    \E s \in Sessions :
        \/ \E q \in Params : Navigate(s, q)
        \/ FirstRun(s, TRUE)
        \/ ClickBack(s, TRUE)
        \/ Rerun(s, TRUE)

Spec == Init /\ [][Next]_vars

(***************************************************************************)
(* The gallery specification: one session on a corpus that setup builds    *)
(* from up to MaxGallerySrc source images, no file operation failing.      *)
(***************************************************************************)
GalleryParams == {NoParam} \cup 0..MaxCount

InitGallery ==
    /\ src_n \in 0..MaxGallerySrc
    /\ src_labels \in {{}, 1..src_n}
    /\ images = EmptyDir
    /\ annotations = EmptyDir
    /\ InitSessions /\ InitSetup /\ InitDraw

NextGallery ==
    \/ \E q \in GalleryParams : Navigate(1, q)
    \/ FirstRun(1, FALSE)
    \/ ClickBack(1, FALSE)
    \/ Rerun(1, FALSE)

SpecGallery == InitGallery /\ [][NextGallery]_vars

(***************************************************************************)
(* The corpus specification: setup_sample_data run again and again.        *)
(***************************************************************************)
RunSetup(F) ==
    LET fs == setup_sample_data(images, annotations, src_n, src_labels, F)
    IN  /\ images' = fs.images
        /\ annotations' = fs.annotations
        /\ before' = [images |-> images, annotations |-> annotations]
        /\ prev_run' = last_run
        /\ last_run' = IF IsClean(F) THEN "clean" ELSE "failed"
        /\ UNCHANGED <<src_n, src_labels, sessionVars, drawVars>>

InitSetupSpec == InitCorpus(MaxSrc) /\ InitSessions /\ InitSetup /\ InitDraw

NextSetup ==
    \E F \in Failures(images, annotations, src_n, src_labels, TRUE) : RunSetup(F)

SpecSetup == InitSetupSpec /\ [][NextSetup]_vars

(***************************************************************************)
(* The same with no file operation failing, from any prior directories.    *)
(***************************************************************************)
InitSetupClean ==
    /\ src_n \in 0..MaxSrc
    /\ src_labels \in SUBSET (1..src_n)
    /\ images \in AnyDirs
    /\ annotations \in AnyDirs
    /\ InitSessions /\ InitSetup /\ InitDraw

NextSetupClean == RunSetup(NoFailures)

SpecSetupClean == InitSetupClean /\ [][NextSetupClean]_vars

(***************************************************************************)
(* The drawing specification: draw_annotations applied to an annotation    *)
(* file and an image size drawn from bounded sets.                         *)
(***************************************************************************)
ExampleLine == Line(5, TRUE, TRUE, TRUE, 0, 4, 4, 2, 2)   \* "0 0.5 0.5 0.25 0.25"

LineSamples ==
    { ExampleLine,
      Line(5, TRUE, TRUE, TRUE, 3, 1, 8, 8, 4),           \* "3 0.125 1.0 1.0 0.5"
      Line(6, TRUE, TRUE, FALSE, 0, 2, 2, 1, 1),          \* "x 0.25 0.25 0.125 0.125 0.9"
      Line(4, FALSE, FALSE, TRUE, 0, 0, 0, 0, 0),         \* "0 0.5 0.5 0.25"
      Line(0, FALSE, FALSE, FALSE, 0, 0, 0, 0, 0),        \* ""
      Line(5, FALSE, FALSE, TRUE, 0, 0, 0, 0, 0),         \* "0 abc 0.5 0.25 0.25"
      Line(5, TRUE, FALSE, TRUE, 0, 0, 0, 0, 0) }         \* "0 nan 0.5 0.25 0.25"

GridLines ==
    { Line(5, TRUE, TRUE, TRUE, 0, xc, yc, bw, bh) :
        xc \in 0..MaxEighth, yc \in 0..MaxEighth, bw \in 0..MaxEighth, bh \in 0..MaxEighth }

AnnFiles ==
    UNION {[1..n -> LineSamples] : n \in 0..MaxLines} \cup {<<l>> : l \in GridLines}

Sizes == {<<640, 480>>, <<3, 5>>}

InitDrawSpec ==
    /\ src_n = 0 /\ src_labels = {} /\ images = EmptyDir /\ annotations = EmptyDir
    /\ InitSessions /\ InitSetup
    /\ ann_exists \in BOOLEAN
    /\ ann_file \in (IF ann_exists THEN AnnFiles ELSE {<<>>})
    /\ img_size \in Sizes
    /\ drawn = <<>>
    /\ draw_done = FALSE

Draw ==
    /\ ~draw_done
    /\ drawn' = draw_annotations(ann_exists, ann_file, img_size[1], img_size[2])
    /\ draw_done' = TRUE
    /\ UNCHANGED <<corpusVars, sessionVars, setupVars, ann_exists, ann_file, img_size>>

SpecDraw == InitDrawSpec /\ [][Draw]_vars

(***************************************************************************)
(* Claims.                                                                 *)
(***************************************************************************)
Abs(x) == IF x >= 0 THEN x ELSE -x

\* t is num / den (den > 0) truncated toward zero.
IsTrunc(t, num, den) ==
    /\ den * Abs(t) <= Abs(num)
    /\ Abs(num) < den * (Abs(t) + 1)
    /\ t * num >= 0

\* At least 5 tokens, of which tokens 2 to 5 parse as numbers.
WellFormed(l) == l.parts >= 5 /\ l.floats /\ l.finite

\* C1: after select(s) and back the session is in Gallery and stays there: a
\* run that st.rerun() scheduled, started with selected_sample = None (no new
\* page load in between), ends with selected_sample = None.
C1_BackStaysInGallery ==
    [][\A s \in Sessions :
          (event'.s = s /\ event'.kind = "rerun" /\ selected_sample[s] = None)
              => selected_sample'[s] = None]_vars

\* C2: for an existing annotation file, draw_annotations draws exactly one
\* box per well-formed line, in file order; malformed lines add nothing and
\* do not change the boxes of the well-formed lines around them.
C2_OneBoxPerWellFormedLine ==
    (draw_done /\ ann_exists) =>
        LET good == SelectSeq(ann_file, WellFormed)
        IN  drawn = [i \in 1..Len(good) |-> Rect(good[i], img_size[1], img_size[2])]

\* C3: once setup_sample_data has run, no later run of main removes or
\* rewrites a file of sample_images or annotations.
C3_CorpusWrittenOnce ==
    [][setup_done =>
          (~event'.wrote /\ images' = images /\ annotations' = annotations)]_vars

\* C4: a session whose requested sample is absent gets an explicit failure
\* and is in Gallery: a page that shows the load error has selected_sample =
\* None, and a gallery page is never the silent answer to a 'sample' index
\* that is not in the session's listing.
C4_AbsentSampleFallsBack ==
    \A s \in Sessions :
        /\ view[s].kind = "error" => selected_sample[s] = None
        /\ view[s].kind = "gallery" => query[s] = NoParam

\* C5: within a session, selected_sample goes from None to a sample only for
\* the sample the gallery lists at the selected index, and leaves a sample
\* only to None and only by the back button; never from one sample to another.
C5_OnlySelectAndBack ==
    [][\A s \in Sessions :
          (event'.s = s /\ event'.kind # "load") =>
              LET a == selected_sample[s]
                  b == selected_sample'[s]
                  listing == SortedGlob(images')
              IN  /\ (a = None /\ b # None) =>
                        /\ query[s] \in 0..(Len(listing) - 1)
                        /\ b = listing[query[s] + 1]
                  /\ (a # None /\ b # a) => (b = None /\ event'.kind = "back")]_vars

\* C6: a run of main in one session changes neither another session's
\* selected_sample and sample_paths nor what that session's Detail view
\* shows for its selected sample.
C6_SessionsIsolated ==
    [][\A s \in Sessions : \A t \in Sessions \ {s} :
          (event'.s = s /\ event'.kind # "load") =>
              /\ selected_sample'[t] = selected_sample[t]
              /\ sample_paths'[t] = sample_paths[t]
              /\ selected_sample[t] # None =>
                    Render(selected_sample[t], images', annotations')
                        = Render(selected_sample[t], images, annotations)]_vars

\* C7: with an unchanged source and no failing file operation, a second run
\* of setup_sample_data leaves the corpus the first run left, and a run leaves
\* nothing of what the directories held before: every file is the copy of
\* the source image, or label, of its index.
C7_SetupIdempotent ==
    /\ (last_run = "clean" /\ prev_run = "clean") =>
           [images |-> images, annotations |-> annotations] = before
    /\ last_run = "clean" =>
           /\ DOMAIN images \subseteq 1..src_n
           /\ DOMAIN annotations \subseteq (DOMAIN images \cap src_labels)
           /\ \A k \in DOMAIN images : images[k] = k
           /\ \A k \in DOMAIN annotations : annotations[k] = k

C7_Witness ==
    /\ last_run = "clean" /\ prev_run = "clean"
    /\ DOMAIN images # {} /\ DOMAIN annotations # {}
    /\ src_n > Cardinality(src_labels)

\* C8: the box of a well-formed line is x1 = trunc(xc*W - bw*W/2), x2 =
\* trunc(xc*W + bw*W/2), y1 = trunc(yc*H - bh*H/2), y2 = trunc(yc*H + bh*H/2),
\* truncated toward zero and not clamped; "0 0.5 0.5 0.25 0.25" on 640 x 480
\* gives (240,180)-(400,300).
C8_BoxTruncatedUnclamped ==
    (draw_done /\ ann_exists) =>
        LET good == SelectSeq(ann_file, WellFormed)
            w == img_size[1]
            h == img_size[2]
        IN  /\ Len(drawn) <= Len(good)
            /\ (ann_file # <<>> /\ WellFormed(Head(ann_file))) => drawn # <<>>
            /\ \A i \in 1..Len(drawn) :
                  /\ IsTrunc(drawn[i].x1, 2 * good[i].xc * w - good[i].bw * w, 16)
                  /\ IsTrunc(drawn[i].x2, 2 * good[i].xc * w + good[i].bw * w, 16)
                  /\ IsTrunc(drawn[i].y1, 2 * good[i].yc * h - good[i].bh * h, 16)
                  /\ IsTrunc(drawn[i].y2, 2 * good[i].yc * h + good[i].bh * h, 16)
            /\ (ann_file = <<ExampleLine>> /\ img_size = <<640, 480>>) =>
                   drawn = <<[x1 |-> 240, y1 |-> 180, x2 |-> 400, y2 |-> 300,
                              color |-> 0, thickness |-> 3]>>

C8_Witness ==
    /\ draw_done /\ ann_exists /\ drawn # <<>>
    /\ WellFormed(Head(ann_file))
    /\ drawn[1].x1 < 0 /\ drawn[1].y2 > img_size[2]
    /\ (2 * Head(ann_file).xc * img_size[1] - Head(ann_file).bw * img_size[1]) % 16 # 0

\* C9: the card titled "Sample k", whose button carries index k - 1, is
\* mapped to sample_k.jpg, and selecting it enters Detail for sample_k.jpg.
C9_CardTitleMatchesFile ==
    \A s \in Sessions :
        /\ \A i \in DOMAIN sample_paths[s] : sample_paths[s][i] = i + 1
        /\ selected_sample[s] # None => selected_sample[s] = query[s] + 1

\* C10: after setup_sample_data runs whose file operations may fail, every
\* annotation sample_i.txt has its image sample_i.jpg, and is the label of
\* the source image that sample_i.jpg is the copy of.
C10_PairingConsistent ==
    last_run # "none" =>
        \A i \in DOMAIN annotations :
            i \in DOMAIN images /\ annotations[i] = images[i]

====
